---- MODULE Spec2Model ----
(***************************************************************************)
(* Gmail monitoring system (src/main.py): the scan/dedup/deliver/archive   *)
(* loop of GmailEmailMonitor.process_emails over the two SQLite tables of  *)
(* DatabaseManager (processed_emails, customer_submissions).               *)
(*                                                                         *)
(* Time is counted in hours.  `now` is the UTC instant; SQLite's           *)
(* CURRENT_TIMESTAMP renders it as UTC, Python's datetime.now() renders    *)
(* it as naive local time, i.e. shifted by the host's UTC offset `tz`.     *)
(***************************************************************************)
EXTENDS Integers, Sequences, FiniteSets, TLC

\* ---------------------------------------------------------------- bounds
\* Number of messages that ever reach the inbox.
MaxMsgs == 3
\* Last hour of the UTC clock.
MaxTime == 2
\* Largest absolute UTC offset (hours) of the host running the process.
TzMax == 1
\* Number of calls made to a function that is exercised on its own.
MaxCalls == 2
\* Number of messages that arrive when the originator spellings are compared.
MaxPair == 2
\* Messages that arrive in the runs of ScanSpec: one more than a scan lists.
MaxInbox == 11

\* ------------------------------------------------------ program constants
\* DEDUPLICATION_WINDOW_HOURS = int(os.environ.get('DEDUP_WINDOW_HOURS', '24'));
\* the deployment modelled here sets DEDUP_WINDOW_HOURS=2.
DEDUPLICATION_WINDOW_HOURS == 2
\* get_latest_emails(max_results=10)
max_results == 10

Msgs == 1..MaxMsgs
TzOffsets == (0 - TzMax)..TzMax

\* The messages that can arrive: From address, subject header and decoded
\* body.  Of the body, `email` is the text the address patterns capture ("" when
\* none matches) and `kw` the text the keyword rules find; the other fields a
\* form can carry are read with Field and are absent here.
Inputs ==
    { [sender |-> "form@site.jp", subject |-> "s1",
       body |-> [email |-> "a@b.com", kw |-> "kaiin-touroku"]],
      [sender |-> "form@site.jp", subject |-> "s2",
       body |-> [email |-> "a@b.com", kw |-> "kaiin-touroku"]],
      [sender |-> "form@site.jp", subject |-> "s1",
       body |-> [email |-> "a@b.com", kw |-> "raijou-yoyaku"]],
      [sender |-> "form@site.jp", subject |-> "s2",
       body |-> [email |-> "", kw |-> "kaiin-touroku"]] }

\* Messages of one form type whose body address or From address varies.
IdentityInputs ==
    { [sender |-> "form@site.jp", subject |-> "s1",
       body |-> [email |-> "a@b.com", kw |-> "kaiin-touroku"]],
      [sender |-> "form@site.jp", subject |-> "s2",
       body |-> [email |-> "A@B.com", kw |-> "kaiin-touroku"]],
      [sender |-> "form@site.jp", subject |-> "s1",
       body |-> [email |-> "c@d.com", kw |-> "kaiin-touroku"]],
      [sender |-> "other@site.jp", subject |-> "s1",
       body |-> [email |-> "a@b.com", kw |-> "kaiin-touroku"]] }

VARIABLES
    now,                   \* UTC clock (hours)
    tz,                    \* host UTC offset (hours): datetime.now() = now + tz
    mail,                  \* Gmail messages that arrived: id -> [subject, body]
    inbox,                 \* ids carrying the INBOX label
    processed_emails,      \* table processed_emails: message_id -> row
    customer_submissions,  \* table customer_submissions: sequence of rows (index = id)
    pc,                    \* position of the monitor thread in process_emails
    emails,                \* the batch get_latest_emails returned, not yet handled
    dedup_result,          \* local dedup_result of the email being handled
    delivered,             \* history: id -> number of HTTP 200 answers the webhook gave
    returned               \* what the calls of extract_data returned: one dict per message

vars == <<now, tz, mail, inbox, processed_emails, customer_submissions,
          pc, emails, dedup_result, delivered, returned>>

\* ------------------------------------------------------------ the clocks
\* SQLite CURRENT_TIMESTAMP: UTC.
CURRENT_TIMESTAMP == now
\* datetime.now(): naive local wall-clock time.
datetime_now == now + tz

\* ------------------------------------------------------- EmailDataExtractor
\* Texts are strings.  The Japanese keywords of the source are written in
\* romaji, chosen so that one stand-in contains another exactly when the
\* original keyword contains the other one.

\* Python: kw in text.
Contains(text, kw) ==
    \E i \in 1..(Len(text) - Len(kw) + 1) : SubSeq(text, i, i + Len(kw) - 1) = kw

\* str.lower(), one character.
LowerChar(c) ==
    CASE c = "A" -> "a" [] c = "B" -> "b" [] c = "C" -> "c" [] c = "D" -> "d"
      [] c = "E" -> "e" [] c = "F" -> "f" [] c = "G" -> "g" [] c = "H" -> "h"
      [] c = "I" -> "i" [] c = "J" -> "j" [] c = "K" -> "k" [] c = "L" -> "l"
      [] c = "M" -> "m" [] c = "N" -> "n" [] c = "O" -> "o" [] c = "P" -> "p"
      [] c = "Q" -> "q" [] c = "R" -> "r" [] c = "S" -> "s" [] c = "T" -> "t"
      [] c = "U" -> "u" [] c = "V" -> "v" [] c = "W" -> "w" [] c = "X" -> "x"
      [] c = "Y" -> "y" [] c = "Z" -> "z"
      [] OTHER -> c

\* str.lower().
RECURSIVE Lower(_)
Lower(s) ==
    IF s = "" THEN "" ELSE LowerChar(Head(s)) \o Lower(Tail(s))

\* A labelled field of the body: what its patterns capture, "" when none matches.
Field(body, f) == IF f \in DOMAIN body THEN body[f] ELSE ""

\* Some pattern of the field matches.
Has(body, f) == f \in DOMAIN body

\* re.sub(r'[...]', '', s) for a set of characters.
RECURSIVE RemoveChars(_, _)
RemoveChars(s, chars) ==
    IF s = "" THEN ""
    ELSE (IF Head(s) \in chars THEN "" ELSE Head(s)) \o RemoveChars(Tail(s), chars)

\* re.sub(r'[\s]+', ' ', s)
RECURSIVE CollapseSpaces(_)
CollapseSpaces(s) ==
    IF Len(s) < 2 THEN s
    ELSE IF Head(s) = " " /\ Head(Tail(s)) = " "
         THEN CollapseSpaces(Tail(s))
         ELSE Head(s) \o CollapseSpaces(Tail(s))

\* str.strip()
RECURSIVE Strip(_)
Strip(s) ==
    IF s = "" THEN ""
    ELSE IF Head(s) = " " THEN Strip(Tail(s))
    ELSE IF SubSeq(s, Len(s), Len(s)) = " " THEN Strip(SubSeq(s, 1, Len(s) - 1))
    ELSE s

\* str.zfill(2)
Zfill2(s) == IF Len(s) < 2 THEN "0" \o s ELSE s

\* The decoration characters of the patterns' clean-up, in ASCII:
\* "}" "{" for the lenticular brackets, "<" ">" for the full-width
\* parentheses, "^" for the black triangle.
Marks == {"}", "{", "[", "]", "(", ")", "<", ">", "^"}

\* strip, drop the decoration characters, collapse whitespace, strip
\* (the clean-up of _extract_name, _extract_address, _extract_trigger,
\* _extract_furigana).
CleanCaptured(s) == Strip(CollapseSpaces(RemoveChars(Strip(s), Marks)))

\* Variant of _extract_email_address_from_content that keeps the letter case.
_extract_email_address_from_content_keeping_case(body) ==
    IF body.email = "" THEN ""
    ELSE RemoveChars(Strip(body.email), {"^", "{", "}", " "})

\* _extract_email_address_from_content: the captured address without
\* triangle, lenticular brackets and whitespace, lower-cased; "" when no
\* pattern matches.
_extract_email_address_from_content(body) ==
    IF body.email = "" THEN ""
    ELSE Lower(RemoveChars(Strip(body.email), {"^", "{", "}", " "}))

\* The keyword lists of _extract_title, in the order of its if statements.
BodyRules ==
    << [keywords |-> {"kaiin-touroku", "birds-house", "kaiin-touroku ga arimashita"},
        title |-> "[BH] kaiin-touroku"],
       [keywords |-> {"raijou-yoyaku", "raijou-kibou", "kengaku-yoyaku",
                      "kengaku-kibou", "ibento-sanka", "ibento-moushikomi"},
        title |-> "[HJ] event"],
       [keywords |-> {"kaiin-jouhou-henkou", "jouhou-henkou", "kaiin-jouhou-koushin"},
        title |-> "[HJ] kaiin-jouhou-henkou"],
       [keywords |-> {"taikai", "kaiin-taikai", "taikai shimashita"},
        title |-> "[HJ] taikai"],
       [keywords |-> {"bunjou-juutaku", "bukken", "juutaku", "toiawase", "toi-awase"},
        title |-> "[HJ] bunjou-juutaku"],
       [keywords |-> {"shiryou-seikyuu", "shiryou-kibou", "catalog-seikyuu"},
        title |-> "[HJ] shiryou-seikyuu"],
       [keywords |-> {"o-toiawase-form", "kontakuto", "form"},
        title |-> "[HJ] form"] >>

SubjectRules ==
    << [keywords |-> {"ibento", "event", "sanka", "moushikomi", "moushi-komi"},
        title |-> "[HJ] event"],
       [keywords |-> {"toiawase", "toi-awase", "inquiry", "contact"},
        title |-> "[HJ] toiawase"] >>

\* any(keyword in text for keyword in keywords)
AnyKeywordIn(keywords, text) == \E kw \in keywords : Contains(text, kw)

\* The title of the first rule of the list with a keyword in the text; ""
\* when no rule has one.
RECURSIVE FirstMatchingTitle(_, _)
FirstMatchingTitle(rules, text) ==
    IF rules = <<>> THEN ""
    ELSE IF AnyKeywordIn(Head(rules).keywords, text)
         THEN Head(rules).title
         ELSE FirstMatchingTitle(Tail(rules), text)

\* Variant of _extract_title that tries the subject rules before the body rules.
_extract_title_subject_first(body, subject) ==
    LET by_subject == FirstMatchingTitle(SubjectRules, Lower(subject))
    IN  IF by_subject # "" THEN by_subject
        ELSE LET by_content == FirstMatchingTitle(BodyRules, body.kw)
             IN  IF by_content # "" THEN by_content ELSE "[HJ] toiawase"

\* _extract_title: the body rules on the content as it is, then the subject
\* rules on the lower-cased subject, then the generic title.
_extract_title(body, subject) ==
    LET by_content == FirstMatchingTitle(BodyRules, body.kw)
    IN  IF by_content # "" THEN by_content
        ELSE LET by_subject == FirstMatchingTitle(SubjectRules, Lower(subject))
             IN  IF by_subject # "" THEN by_subject ELSE "[HJ] toiawase"

\* Variant of _extract_inquiry_number that synthesizes the number always.
_extract_inquiry_number_always_synthesized(body, subject) ==
    "INQ-" \o ToString(datetime_now)

\* _extract_inquiry_number: the first [A-Z]{2,4}-\d{3,6} of the content, or
\* INQ- followed by the local time.
_extract_inquiry_number(body, subject) ==
    IF Field(body, "inquiry_no") # ""
    THEN Field(body, "inquiry_no")
    ELSE "INQ-" \o ToString(datetime_now)

\* _extract_inquiry_datetime: the groups (year, month, day, hour, minute) of
\* the first matching layout, month and day zero-filled; or the local time.
_extract_inquiry_datetime(body) ==
    LET g == Field(body, "datetime")
    IN  IF Has(body, "datetime")
        THEN g[1] \o "-" \o Zfill2(g[2]) \o "-" \o Zfill2(g[3]) \o " " \o g[4] \o ":" \o g[5]
        ELSE "LT" \o ToString(datetime_now)

_extract_name(body) ==
    IF Field(body, "name") # "" THEN CleanCaptured(Field(body, "name")) ELSE ""

\* _extract_postal_code ("T" stands for the postal mark).
_extract_postal_code(body) ==
    IF Field(body, "postal") = "" THEN ""
    ELSE LET postal == Strip(RemoveChars(RemoveChars(Field(body, "postal"), {"T"}),
                                         Marks \cup {" "}))
         IN  IF ~Contains(postal, "-") /\ Len(postal) = 7
             THEN SubSeq(postal, 1, 3) \o "-" \o SubSeq(postal, 4, 7)
             ELSE postal

_extract_address(body) ==
    IF Field(body, "address") # "" THEN CleanCaptured(Field(body, "address")) ELSE ""

_extract_phone_number(body) ==
    IF Field(body, "phone") # ""
    THEN RemoveChars(Strip(Field(body, "phone")), Marks \cup {" "})
    ELSE ""

\* trigger_map, in insertion order.
trigger_map ==
    << [key |-> "HP-kensaku", value |-> "website"],
       [key |-> "instagram", value |-> "instagram"],
       [key |-> "Facebook", value |-> "Facebook"],
       [key |-> "Google", value |-> "website"],
       [key |-> "chirashi", value |-> "chirashi"],
       [key |-> "shoukai", value |-> "shoukai"],
       [key |-> "homepage", value |-> "website"],
       [key |-> "netto", value |-> "website"],
       [key |-> "minoh-qs-mall-koukoku", value |-> "minoh-qs-mall-koukoku"] >>

RECURSIVE FirstKeyIn(_, _)
FirstKeyIn(map, text) ==
    IF map = <<>> THEN "website"
    ELSE IF Contains(text, Head(map).key) THEN Head(map).value
    ELSE FirstKeyIn(Tail(map), text)

_extract_trigger(body) ==
    IF Field(body, "trigger") # ""
    THEN CleanCaptured(Field(body, "trigger"))
    ELSE FirstKeyIn(trigger_map, body.kw)

_extract_url(body) ==
    IF Field(body, "url") # "" THEN Field(body, "url") ELSE "https://example.com/123"

\* _extract_preferred_time ("gozen" morning, "gogo" afternoon); the field
\* `time` of a body is [text, hm]: the text captured after the time label and
\* the (hour, minute) groups its time sub-patterns find in it (<<>> if none).
_extract_preferred_time(body) ==
    IF Has(body, "time")
    THEN LET time_text == Strip(Field(body, "time").text)
         IN  IF AnyKeywordIn({"9:", "10:", "11:", "gozen", "AM"}, time_text)
             THEN "gozen"
             ELSE IF AnyKeywordIn({"12:", "13:", "14:", "15:", "16:", "17:", "18:",
                                   "gogo", "PM"}, time_text)
                  THEN "gogo"
                  ELSE time_text
    ELSE IF AnyKeywordIn({"gozen", "AM", "9:", "10:", "11:"}, body.kw)
         THEN "gozen"
         ELSE "gogo"

_extract_furigana(body) ==
    IF Field(body, "furigana") # "" THEN CleanCaptured(Field(body, "furigana")) ELSE ""

\* _extract_visit_date; the field `visit_date` of a body is [text, ymd]: the
\* text captured after the label and the (year, month, day) groups its date
\* sub-patterns find in it (<<>> if none).
_extract_visit_date(body) ==
    IF ~Has(body, "visit_date") THEN ""
    ELSE LET date_text == RemoveChars(Strip(Field(body, "visit_date").text), Marks)
             g == Field(body, "visit_date").ymd
         IN  IF g # <<>>
             THEN g[1] \o "-" \o Zfill2(g[2]) \o "-" \o Zfill2(g[3])
             ELSE date_text

\* _extract_visit_time: the same labels as _extract_preferred_time.
_extract_visit_time(body) ==
    IF ~Has(body, "time") THEN ""
    ELSE LET time_text == RemoveChars(Strip(Field(body, "time").text), Marks)
             g == Field(body, "time").hm
         IN  IF g # <<>>
             THEN Zfill2(g[1]) \o ":" \o Zfill2(g[2])
             ELSE time_text

\* Variant of extract_data that leaves out the keys whose value is unresolved.
extract_data_omitting_unresolved(email_content, sender_email, subject, message_id) ==
    LET r == [sender_email |-> sender_email,
              subject |-> subject,
              timestamp |-> "UTC" \o ToString(CURRENT_TIMESTAMP),
              toiawase_bangou |-> _extract_inquiry_number(email_content, subject),
              toiawase_nichiji |-> _extract_inquiry_datetime(email_content),
              namae |-> _extract_name(email_content),
              yuubin_bangou |-> _extract_postal_code(email_content),
              juusho |-> _extract_address(email_content),
              denwa_bangou |-> _extract_phone_number(email_content),
              denwa_bangou_2 |-> "",
              kikkake |-> _extract_trigger(email_content),
              kenmei |-> subject,
              title |-> _extract_title(email_content, subject),
              URL |-> _extract_url(email_content),
              kibou_jikan |-> _extract_preferred_time(email_content),
              furigana |-> _extract_furigana(email_content),
              message_id |-> message_id,
              customer_email |-> _extract_email_address_from_content(email_content),
              raijou_kiboubi |-> _extract_visit_date(email_content),
              kibou_houmon_jikan |-> _extract_visit_time(email_content)]
        resolved == {f \in DOMAIN r : f = "message_id" \/ r[f] # ""}
    IN  [f \in resolved |-> r[f]]

\* extract_data: the dict it returns.  Keys in ASCII: toiawase_bangou,
\* toiawase_nichiji, namae, yuubin_bangou, juusho, denwa_bangou(_2), kikkake,
\* kenmei, title, kibou_jikan, furigana, customer_email (kokyaku mail),
\* raijou_kiboubi, kibou_houmon_jikan.
extract_data(email_content, sender_email, subject, message_id) ==
    [sender_email |-> sender_email,
     subject |-> subject,
     timestamp |-> "UTC" \o ToString(CURRENT_TIMESTAMP),
     toiawase_bangou |-> _extract_inquiry_number(email_content, subject),
     toiawase_nichiji |-> _extract_inquiry_datetime(email_content),
     namae |-> _extract_name(email_content),
     yuubin_bangou |-> _extract_postal_code(email_content),
     juusho |-> _extract_address(email_content),
     denwa_bangou |-> _extract_phone_number(email_content),
     denwa_bangou_2 |-> "",
     kikkake |-> _extract_trigger(email_content),
     kenmei |-> subject,
     title |-> _extract_title(email_content, subject),
     URL |-> _extract_url(email_content),
     kibou_jikan |-> _extract_preferred_time(email_content),
     furigana |-> _extract_furigana(email_content),
     message_id |-> message_id,
     customer_email |-> _extract_email_address_from_content(email_content),
     raijou_kiboubi |-> _extract_visit_date(email_content),
     kibou_houmon_jikan |-> _extract_visit_time(email_content)]

\* process_emails lines 940-953: extracted_data is computed once per email,
\* customer_email = extracted_data.get(...) and submission_type =
\* extracted_data.get(...) or the subject.  extracted_data holds, for every
\* message that can arrive, the two values extract_data computes for these keys.
extracted_data ==
    [input \in Inputs \cup IdentityInputs |->
        [customer_email |-> _extract_email_address_from_content(input.body),
         title |-> _extract_title(input.body, input.subject)]]

CustomerEmailOf(m) == extracted_data[mail[m]].customer_email

SubmissionTypeOf(m) ==
    LET t == extracted_data[mail[m]].title
    IN  IF t = "" THEN mail[m].subject ELSE t

\* ---------------------------------------------------------- DatabaseManager
NoDup == [is_duplicate |-> FALSE, previous_submission |-> <<>>]

\* _normalize_subject: re.sub(r'\s+', ' ', subject.strip().lower()).
\* is_customer_recently_processed calls it on the subject and drops the result.
_normalize_subject(subject) ==
    IF subject = "" THEN "" ELSE CollapseSpaces(Lower(Strip(subject)))

\* Variant of RecentRows with the comparison last_submission_at >= ?.
RecentRowsAtOrAfter(table, customer_email, submission_type, threshold) ==
    {i \in DOMAIN table :
        /\ table[i].customer_email = customer_email
        /\ table[i].submission_type = submission_type
        /\ table[i].last_submission_at >= threshold}

\* Variant of RecentRows whose WHERE clause leaves out submission_type.
RecentRowsAnyType(table, customer_email, submission_type, threshold) ==
    {i \in DOMAIN table :
        /\ table[i].customer_email = customer_email
        /\ table[i].last_submission_at > threshold}

\* Rows of customer_submissions the SELECT of is_customer_recently_processed matches.
RecentRows(table, customer_email, submission_type, threshold) ==
    {i \in DOMAIN table :
        /\ table[i].customer_email = customer_email
        /\ table[i].submission_type = submission_type
        /\ table[i].last_submission_at > threshold}

\* Variant of is_customer_recently_processed without the empty-email return and
\* matching customer_email LIKE '%' || ? || '%' (the empty string matches every row).
is_customer_recently_processed_like(table, customer_email, submission_type, window_hours) ==
    LET st == IF submission_type = "" THEN "unknown" ELSE submission_type
        threshold == datetime_now - window_hours
        hits == {i \in DOMAIN table :
                    /\ customer_email \in {"", table[i].customer_email}
                    /\ table[i].submission_type = st
                    /\ table[i].last_submission_at > threshold}
    IN  IF hits # {}
        THEN LET top == CHOOSE i \in hits :
                            \A j \in hits :
                                table[i].last_submission_at >= table[j].last_submission_at
             IN  [is_duplicate |-> TRUE, previous_submission |-> <<table[top]>>]
        ELSE NoDup

is_customer_recently_processed(table, customer_email, submission_type, window_hours) ==
    IF customer_email = ""
    THEN NoDup
    ELSE LET st == IF submission_type = "" THEN "unknown" ELSE submission_type
             threshold == datetime_now - window_hours
             hits == RecentRows(table, customer_email, st, threshold)
         IN  IF hits # {}
             THEN LET top == CHOOSE i \in hits :
                                 \A j \in hits :
                                     table[i].last_submission_at >= table[j].last_submission_at
                  IN  [is_duplicate |-> TRUE, previous_submission |-> <<table[top]>>]
             ELSE NoDup

\* Variant of record_customer_submission that inserts a first sighting but leaves
\* an existing row as it is.
record_customer_submission_insert_only(table, customer_email, submission_type, email_subject, message_id) ==
    IF customer_email = ""
    THEN table
    ELSE LET st == IF submission_type = "" THEN "unknown" ELSE submission_type
             Match(r) == r.customer_email = customer_email /\ r.submission_type = st
         IN  IF \E i \in DOMAIN table : Match(table[i])
             THEN table
             ELSE Append(table,
                         [customer_email |-> customer_email,
                          submission_type |-> st,
                          email_subject |-> email_subject,
                          first_submission_at |-> CURRENT_TIMESTAMP,
                          last_submission_at |-> CURRENT_TIMESTAMP,
                          submission_count |-> 1,
                          first_message_id |-> message_id,
                          last_message_id |-> message_id])

\* Variant of record_customer_submission that looks for an existing row only
\* among those newer than the window, and inserts a second row otherwise.
record_customer_submission_insert_when_stale(table, customer_email, submission_type, email_subject, message_id) ==
    IF customer_email = ""
    THEN table
    ELSE LET st == IF submission_type = "" THEN "unknown" ELSE submission_type
             Match(r) == /\ r.customer_email = customer_email
                         /\ r.submission_type = st
                         /\ r.last_submission_at > datetime_now - DEDUPLICATION_WINDOW_HOURS
         IN  IF \E i \in DOMAIN table : Match(table[i])
             THEN [i \in DOMAIN table |->
                      IF Match(table[i])
                      THEN [table[i] EXCEPT !.last_submission_at = CURRENT_TIMESTAMP,
                                            !.submission_count = @ + 1,
                                            !.last_message_id = message_id,
                                            !.email_subject = email_subject]
                      ELSE table[i]]
             ELSE Append(table,
                         [customer_email |-> customer_email,
                          submission_type |-> st,
                          email_subject |-> email_subject,
                          first_submission_at |-> CURRENT_TIMESTAMP,
                          last_submission_at |-> CURRENT_TIMESTAMP,
                          submission_count |-> 1,
                          first_message_id |-> message_id,
                          last_message_id |-> message_id])

\* Variant of record_customer_submission whose UPDATE also overwrites
\* first_submission_at and first_message_id.
record_customer_submission_resetting_first(table, customer_email, submission_type, email_subject, message_id) ==
    IF customer_email = ""
    THEN table
    ELSE LET st == IF submission_type = "" THEN "unknown" ELSE submission_type
             Match(r) == r.customer_email = customer_email /\ r.submission_type = st
             fresh == [customer_email |-> customer_email,
                       submission_type |-> st,
                       email_subject |-> email_subject,
                       first_submission_at |-> CURRENT_TIMESTAMP,
                       last_submission_at |-> CURRENT_TIMESTAMP,
                       submission_count |-> 1,
                       first_message_id |-> message_id,
                       last_message_id |-> message_id]
         IN  IF \E i \in DOMAIN table : Match(table[i])
             THEN [i \in DOMAIN table |->
                      IF Match(table[i])
                      THEN [fresh EXCEPT !.submission_count = table[i].submission_count + 1]
                      ELSE table[i]]
             ELSE Append(table, fresh)

record_customer_submission(table, customer_email, submission_type, email_subject, message_id) ==
    IF customer_email = ""
    THEN table
    ELSE LET st == IF submission_type = "" THEN "unknown" ELSE submission_type
             Match(r) == r.customer_email = customer_email /\ r.submission_type = st
         IN  IF \E i \in DOMAIN table : Match(table[i])
             THEN [i \in DOMAIN table |->
                      IF Match(table[i])
                      THEN [table[i] EXCEPT !.last_submission_at = CURRENT_TIMESTAMP,
                                            !.submission_count = @ + 1,
                                            !.last_message_id = message_id,
                                            !.email_subject = email_subject]
                      ELSE table[i]]
             ELSE Append(table,
                         [customer_email |-> customer_email,
                          submission_type |-> st,
                          email_subject |-> email_subject,
                          first_submission_at |-> CURRENT_TIMESTAMP,
                          last_submission_at |-> CURRENT_TIMESTAMP,
                          submission_count |-> 1,
                          first_message_id |-> message_id,
                          last_message_id |-> message_id])

\* INSERT OR REPLACE INTO processed_emails: webhook_sent, archived take their defaults.
add_processed_email(ledger, message_id, subject, customer_email, submission_type, is_duplicate) ==
    [m \in DOMAIN ledger \cup {message_id} |->
        IF m = message_id
        THEN [subject |-> subject,
              customer_email |-> customer_email,
              submission_type |-> submission_type,
              is_duplicate |-> is_duplicate,
              webhook_sent |-> FALSE,
              archived |-> FALSE]
        ELSE ledger[m]]

\* Variant of is_email_processed that takes an email whose delivery is not
\* recorded as not processed.
is_email_processed_when_settled(message_id) ==
    /\ message_id \in DOMAIN processed_emails
    /\ \/ processed_emails[message_id].is_duplicate
       \/ processed_emails[message_id].webhook_sent

is_email_processed(message_id) == message_id \in DOMAIN processed_emails

\* Variant of mark_webhook_sent whose UPDATE has no WHERE clause.
mark_webhook_sent_every_row(ledger, message_id) ==
    [m \in DOMAIN ledger |-> [ledger[m] EXCEPT !.webhook_sent = TRUE]]

\* UPDATE processed_emails SET webhook_sent = TRUE WHERE message_id = ?
mark_webhook_sent(ledger, message_id) ==
    [m \in DOMAIN ledger |->
        IF m = message_id THEN [ledger[m] EXCEPT !.webhook_sent = TRUE] ELSE ledger[m]]

\* UPDATE processed_emails SET archived = TRUE WHERE message_id = ?
mark_archived(ledger, message_id) ==
    [m \in DOMAIN ledger |->
        IF m = message_id THEN [ledger[m] EXCEPT !.archived = TRUE] ELSE ledger[m]]

\* --------------------------------------------------------- GmailEmailMonitor
\* What one call of send_to_webhook can meet: WEBHOOK_URL unset; requests.post
\* raises; a status other than 200; status 200; status 200 followed by a
\* failing self.db.add_log, which the function's own except clause catches.
WebhookOutcomes == {"no_url", "exception", "non200", "200", "200_log_error"}

\* The webhook answered HTTP 200 to the POST.
HttpOk(outcome) == outcome \in {"200", "200_log_error"}

\* Variant of send_to_webhook that returns True for any HTTP response.
send_to_webhook_any_response(outcome) == outcome \in {"200", "non200"}

\* send_to_webhook's return value.
send_to_webhook(outcome) == outcome = "200"

\* messages().list(q='in:inbox', maxResults=...): the newest first.
NewestFirst(S) ==
    [i \in 1..Cardinality(S) |-> CHOOSE x \in S : Cardinality({y \in S : y >= x}) = i]

Take(s, n) == IF Len(s) <= n THEN s ELSE SubSeq(s, 1, n)

RECURSIVE SelectUnprocessed(_)
SelectUnprocessed(s) ==
    IF s = <<>> THEN <<>>
    ELSE IF is_email_processed(Head(s))
         THEN SelectUnprocessed(Tail(s))
         ELSE <<Head(s)>> \o SelectUnprocessed(Tail(s))

\* get_latest_emails: the unprocessed ones among the max_results newest inbox messages.
get_latest_emails == SelectUnprocessed(Take(NewestFirst(inbox), max_results))

\* ------------------------------------------------------------------- Init
Init ==
    /\ now = 0
    /\ tz \in TzOffsets
    /\ mail = <<>>
    /\ inbox = {}
    /\ processed_emails = <<>>
    /\ customer_submissions = <<>>
    /\ pc = "sleep"
    /\ emails = <<>>
    /\ dedup_result = NoDup
    /\ delivered = [m \in Msgs |-> 0]
    /\ returned = <<>>

\* ------------------------------------------------------------ environment
\* A new message lands in the inbox.  The inbox is read only by the list call
\* of get_latest_emails, so an arrival during a scan cycle is the same as one
\* right after it: arrivals are taken while the monitor thread sleeps.
Arrive ==
    /\ pc = "sleep"
    /\ Len(mail) < MaxMsgs
    /\ \E input \in Inputs : mail' = Append(mail, input)
    /\ inbox' = inbox \cup {Len(mail) + 1}
    /\ UNCHANGED <<now, tz, processed_emails, customer_submissions, pc, emails,
                   dedup_result, delivered, returned>>

\* An hour passes.  The clock is read by is_customer_recently_processed
\* (datetime.now()) and by record_customer_submission (CURRENT_TIMESTAMP), so
\* time advances between cycles and between the check and the upsert.
Tick ==
    /\ pc \in {"sleep", "record"}
    /\ now < MaxTime
    /\ now' = now + 1
    /\ UNCHANGED <<tz, mail, inbox, processed_emails, customer_submissions, pc, emails,
                   dedup_result, delivered, returned>>

\* --------------------------------------------------------- process_emails
cur == Head(emails)

\* End of one loop iteration: on to the next email of the batch.
NextEmail ==
    /\ pc' = "loop"
    /\ emails' = Tail(emails)
    /\ dedup_result' = NoDup

\* run_email_monitor wakes up; process_emails fetches the batch.
StartCycle ==
    /\ pc = "sleep"
    /\ pc' = "loop"
    /\ emails' = get_latest_emails
    /\ UNCHANGED <<now, tz, mail, inbox, processed_emails, customer_submissions,
                   dedup_result, delivered, returned>>

\* The same, but a Gmail call of get_latest_emails raises: it returns [].
StartCycleGmailError ==
    /\ pc = "sleep"
    /\ pc' = "loop"
    /\ emails' = <<>>
    /\ UNCHANGED <<now, tz, mail, inbox, processed_emails, customer_submissions,
                   dedup_result, delivered, returned>>

\* The batch is exhausted: process_emails returns, the thread sleeps.
EndCycle ==
    /\ pc = "loop"
    /\ emails = <<>>
    /\ pc' = "sleep"
    /\ UNCHANGED <<now, tz, mail, inbox, processed_emails, customer_submissions,
                   emails, dedup_result, delivered, returned>>

\* extract_data and is_customer_recently_processed for the next email.
CheckDuplicate ==
    /\ pc = "loop"
    /\ emails # <<>>
    /\ dedup_result' = is_customer_recently_processed(customer_submissions,
                           CustomerEmailOf(cur), SubmissionTypeOf(cur),
                           DEDUPLICATION_WINDOW_HOURS)
    /\ pc' = "add"
    /\ UNCHANGED <<now, tz, mail, inbox, processed_emails, customer_submissions,
                   emails, delivered, returned>>

\* self.db.add_processed_email(..., is_duplicate=is_duplicate)
AddProcessed ==
    /\ pc = "add"
    /\ processed_emails' = add_processed_email(processed_emails, cur, mail[cur].subject,
                               CustomerEmailOf(cur), SubmissionTypeOf(cur),
                               dedup_result.is_duplicate)
    /\ pc' = "record"
    /\ UNCHANGED <<now, tz, mail, inbox, customer_submissions, emails, dedup_result,
                   delivered, returned>>

\* self.db.record_customer_submission(...), on both branches.
RecordSubmission ==
    /\ pc = "record"
    /\ customer_submissions' = record_customer_submission(customer_submissions,
                                   CustomerEmailOf(cur), SubmissionTypeOf(cur),
                                   mail[cur].subject, cur)
    /\ pc' = IF dedup_result.is_duplicate THEN "archive" ELSE "send"
    /\ UNCHANGED <<now, tz, mail, inbox, processed_emails, emails, dedup_result,
                   delivered, returned>>

\* Variant of SendWebhook that goes on to archive_email when the delivery fails.
SendWebhookAlwaysArchiving(outcome) ==
    /\ pc = "send"
    /\ delivered' = [delivered EXCEPT ![cur] = @ + (IF HttpOk(outcome) THEN 1 ELSE 0)]
    /\ pc' = IF send_to_webhook(outcome) THEN "mark" ELSE "archive"
    /\ UNCHANGED <<emails, dedup_result>>
    /\ UNCHANGED <<now, tz, mail, inbox, processed_emails, customer_submissions, returned>>

\* Variant of SendWebhook that takes the window record of the email back when
\* the delivery fails.
SendWebhookUndoingRecord(outcome) ==
    /\ pc = "send"
    /\ delivered' = [delivered EXCEPT ![cur] = @ + (IF HttpOk(outcome) THEN 1 ELSE 0)]
    /\ IF send_to_webhook(outcome)
       THEN /\ pc' = "mark"
            /\ UNCHANGED <<emails, dedup_result, customer_submissions>>
       ELSE /\ NextEmail
            /\ customer_submissions' =
                   LET Keep(r) == r.last_message_id # cur
                   IN  SelectSeq(customer_submissions, Keep)
    /\ UNCHANGED <<now, tz, mail, inbox, processed_emails, returned>>

\* if self.send_to_webhook(extracted_data): ...
SendWebhook(outcome) ==
    /\ pc = "send"
    /\ delivered' = [delivered EXCEPT ![cur] = @ + (IF HttpOk(outcome) THEN 1 ELSE 0)]
    /\ IF send_to_webhook(outcome)
       THEN /\ pc' = "mark"
            /\ UNCHANGED <<emails, dedup_result>>
       ELSE NextEmail
    /\ UNCHANGED <<now, tz, mail, inbox, processed_emails, customer_submissions, returned>>

\* The webhook answers 200 and send_to_webhook returns True.
WebhookAccepts == SendWebhook("200")

\* send_to_webhook returns False.
WebhookFails == \E outcome \in WebhookOutcomes \ {"200"} : SendWebhook(outcome)

\* self.db.mark_webhook_sent(email['message_id'])
MarkWebhookSent ==
    /\ pc = "mark"
    /\ processed_emails' = mark_webhook_sent(processed_emails, cur)
    /\ pc' = "archive"
    /\ UNCHANGED <<now, tz, mail, inbox, customer_submissions, emails, dedup_result,
                   delivered, returned>>

\* archive_email: messages().modify(removeLabelIds=['INBOX']) then mark_archived;
\* any exception is caught inside archive_email.
ArchiveOutcomes == {"ok", "modify_failed", "mark_failed"}

ArchiveEmail ==
    /\ pc = "archive"
    /\ \E outcome \in ArchiveOutcomes :
          /\ inbox' = IF outcome = "modify_failed" THEN inbox ELSE inbox \ {cur}
          /\ processed_emails' = IF outcome = "ok"
                                 THEN mark_archived(processed_emails, cur)
                                 ELSE processed_emails
    /\ NextEmail
    /\ UNCHANGED <<now, tz, mail, customer_submissions, delivered, returned>>

\* A store call of the current iteration raises (sqlite3 error): the per-email
\* handler logs it and the loop goes on; if logging the error raises too, the
\* exception leaves the loop and the rest of the batch is dropped.
StoreFailure ==
    /\ \/ pc = "loop" /\ emails # <<>>
       \/ pc \in {"add", "record", "mark"}
    /\ \/ NextEmail
       \/ /\ pc' = "sleep"
          /\ emails' = <<>>
          /\ dedup_result' = NoDup
    /\ UNCHANGED <<now, tz, mail, inbox, processed_emails, customer_submissions,
                   delivered, returned>>

\* The steps of the monitor thread when no call fails.
WorkerStep ==
    \/ StartCycle
    \/ EndCycle
    \/ CheckDuplicate
    \/ AddProcessed
    \/ RecordSubmission
    \/ WebhookAccepts
    \/ MarkWebhookSent
    \/ ArchiveEmail

Next ==
    \/ Arrive
    \/ Tick
    \/ WorkerStep
    \/ StartCycleGmailError
    \/ WebhookFails
    \/ StoreFailure

Spec == Init /\ [][Next]_vars

\* The store and the Gmail list call never fail, the thread keeps cycling
\* (while True / time.sleep(20)), and a webhook that is asked again and again
\* eventually answers 200.
ReliableNext ==
    \/ Arrive
    \/ Tick
    \/ WorkerStep
    \/ WebhookFails

FairSpec ==
    /\ Init
    /\ [][ReliableNext]_vars
    /\ WF_vars(WorkerStep)
    /\ SF_vars(WebhookAccepts)

\* --------------------------------- the monitor while the webhook is down
\* More messages than one scan lists arrive while every call of
\* send_to_webhook returns False; the store and Gmail do not fail.  The
\* messages carry no originator email, so none is a duplicate.
ScanInputs == {input \in Inputs : input.body.email = ""}

ScanInit ==
    /\ now = 0
    /\ tz \in TzOffsets
    /\ mail = <<>>
    /\ inbox = {}
    /\ processed_emails = <<>>
    /\ customer_submissions = <<>>
    /\ pc = "sleep"
    /\ emails = <<>>
    /\ dedup_result = NoDup
    /\ delivered = [m \in 1..MaxInbox |-> 0]
    /\ returned = <<>>

ArriveScan ==
    /\ pc = "sleep"
    /\ Len(mail) < MaxInbox
    /\ \E input \in ScanInputs : mail' = Append(mail, input)
    /\ inbox' = inbox \cup {Len(mail) + 1}
    /\ UNCHANGED <<now, tz, processed_emails, customer_submissions, pc, emails,
                   dedup_result, delivered, returned>>

\* The steps of the monitor thread while the webhook is down.
ScanWorkerStep ==
    \/ StartCycle
    \/ EndCycle
    \/ CheckDuplicate
    \/ AddProcessed
    \/ RecordSubmission
    \/ WebhookFails

ScanNext == ArriveScan \/ ScanWorkerStep

\* The thread keeps cycling (while True / time.sleep(20)).
ScanSpec ==
    /\ ScanInit
    /\ [][ScanNext]_vars
    /\ WF_vars(ScanWorkerStep)

\* ------------------------------------------------- extract_data on its own
\* Bodies for the title rules: the keyword text alone.
TitleTexts ==
    { "kaiin-touroku ga arimashita",
      "raijou-yoyaku no o-toiawase-form",
      "jouhou-henkou to taikai",
      "kaiin-taikai",
      "o-toiawase-form",
      "form kara shiryou-seikyuu",
      "kontakuto",
      "gozen-chuu ni denwa kudasai",
      "konnichiwa",
      "" }

\* Bodies of filled-in forms, decorated and undecorated.
FormBodies ==
    { [email |-> "^Taro@Example.com", kw |-> "raijou-kibou Google",
       inquiry_no |-> "HJ-12345",
       datetime |-> <<"2025", "9", "3", "9", "05">>,
       name |-> " {Yamada   Taro} ", postal |-> "T1234567",
       address |-> "Osaka  (Minoh) 1-2", phone |-> " 090-1234-5678 ",
       trigger |-> "^chirashi^", url |-> "https://hj.example/ev/1",
       time |-> [text |-> "14:30-16:00", hm |-> <<"14", "30">>],
       furigana |-> "yamada  tarou",
       visit_date |-> [text |-> "2025/9/3", ymd |-> <<"2025", "9", "3">>]],
      [email |-> "hanako@example.com", kw |-> "shiryou-kibou gozen",
       postal |-> "123-4567",
       time |-> [text |-> "yuugata", hm |-> <<>>],
       visit_date |-> [text |-> "raishuu", ymd |-> <<>>]] }

ExtractBodies == {[email |-> "a@b.com", kw |-> t] : t \in TitleTexts} \cup FormBodies

ExtractSubjects == {"Event annai", "INQUIRY", "ibento no toiawase", "hello", ""}

ExtractInputs ==
    {[sender |-> "form@site.jp", subject |-> s, body |-> b] :
        s \in ExtractSubjects, b \in ExtractBodies}

\* One message to extract from.
ExtractInit ==
    /\ now = 0
    /\ tz \in TzOffsets
    /\ mail \in {<<input>> : input \in ExtractInputs}
    /\ inbox = {1}
    /\ processed_emails = <<>>
    /\ customer_submissions = <<>>
    /\ pc = "sleep"
    /\ emails = <<>>
    /\ dedup_result = NoDup
    /\ delivered = [m \in Msgs |-> 0]
    /\ returned = <<>>

\* self.extractor.extract_data(body, sender_email, subject, message_id)
ExtractData ==
    /\ Len(returned) < MaxCalls
    /\ \E message_id \in Msgs :
          returned' = Append(returned,
                             extract_data(mail[1].body, mail[1].sender,
                                          mail[1].subject, message_id))
    /\ UNCHANGED <<now, tz, mail, inbox, processed_emails, customer_submissions, pc,
                   emails, dedup_result, delivered>>

ExtractNext == Tick \/ ExtractData

ExtractSpec == ExtractInit /\ [][ExtractNext]_vars

\* ---------------------------------------- the monitor on originator spellings
ArriveIdentity ==
    /\ pc = "sleep"
    /\ Len(mail) < MaxPair
    /\ \E input \in IdentityInputs : mail' = Append(mail, input)
    /\ inbox' = inbox \cup {Len(mail) + 1}
    /\ UNCHANGED <<now, tz, processed_emails, customer_submissions, pc, emails,
                   dedup_result, delivered, returned>>

IdentityNext == ArriveIdentity \/ Tick \/ WorkerStep

IdentitySpec == Init /\ [][IdentityNext]_vars

\* ------------------------------- the monitor when archive calls fail at times
\* archive_email meets no exception: the message leaves the inbox and its row
\* is marked archived.
ArchiveSucceeds ==
    /\ ArchiveEmail
    /\ cur \notin inbox'
    /\ processed_emails'[cur].archived

ArchiveNext == ArriveIdentity \/ Tick \/ WorkerStep \/ WebhookFails

\* The store and the Gmail list call never fail, the thread keeps cycling, a
\* webhook asked again and again eventually answers 200, and an archive call
\* made again and again eventually succeeds.
ArchiveSpec ==
    /\ Init
    /\ [][ArchiveNext]_vars
    /\ WF_vars(WorkerStep)
    /\ SF_vars(WebhookAccepts)
    /\ SF_vars(ArchiveSucceeds)

\* --------------------------------------------- DatabaseManager on its own
\* The two dedup methods called with any strings a caller can pass.
StoreTypes == {"event", "Event", " event", ""}

StoreSubjects == {"s1", "s2"}

RECURSIVE TotalCount(_)
TotalCount(table) ==
    IF table = <<>> THEN 0 ELSE Head(table).submission_count + TotalCount(Tail(table))

\* db.is_customer_recently_processed("a@b.com", submission_type, ...)
StoreCheck ==
    /\ \E submission_type \in StoreTypes :
          dedup_result' = is_customer_recently_processed(customer_submissions, "a@b.com",
                              submission_type, DEDUPLICATION_WINDOW_HOURS)
    /\ UNCHANGED <<now, tz, mail, inbox, processed_emails, customer_submissions, pc,
                   emails, delivered, returned>>

\* db.record_customer_submission("a@b.com", submission_type, email_subject, message_id)
StoreRecord ==
    /\ TotalCount(customer_submissions) < MaxCalls
    /\ \E submission_type \in StoreTypes, email_subject \in StoreSubjects, message_id \in Msgs :
          customer_submissions' = record_customer_submission(customer_submissions, "a@b.com",
                                      submission_type, email_subject, message_id)
    /\ UNCHANGED <<now, tz, mail, inbox, processed_emails, pc, emails, dedup_result,
                   delivered, returned>>

StoreNext == Tick \/ StoreCheck \/ StoreRecord

StoreSpec == Init /\ [][StoreNext]_vars

\* ================================================================ claims
\* The email being handled by the loop body (past the duplicate check).
InFlight == pc \in {"add", "record", "send", "mark", "archive"}

\* Rows of the window table for one (customer_email, submission_type) pair.
RowsOf(table, customer_email, submission_type) ==
    {i \in DOMAIN table :
        /\ table[i].customer_email = customer_email
        /\ table[i].submission_type = submission_type}

\* C1: every input with a not-duplicate verdict is eventually delivered to the
\* webhook, and delivered exactly once, provided the thread keeps cycling and
\* the webhook eventually accepts (the fairness of FairSpec).
C1_DeliveredExactlyOnce ==
    \A m \in Msgs :
        []((m \in DOMAIN processed_emails /\ ~processed_emails[m].is_duplicate)
              => <>(delivered[m] = 1))

C3_Monotonicity ==
    (pc = "add" /\ CustomerEmailOf(cur) # "") =>
        \A i \in RowsOf(customer_submissions, CustomerEmailOf(cur), SubmissionTypeOf(cur)) :
            LET r == customer_submissions[i]
            IN  /\ (/\ r.submission_count = 1
                    /\ r.last_submission_at < now
                    /\ now < r.last_submission_at + DEDUPLICATION_WINDOW_HOURS)
                       => dedup_result.is_duplicate
                /\ (/\ r.submission_count = 2
                    /\ now > r.last_submission_at + DEDUPLICATION_WINDOW_HOURS)
                       => ~dedup_result.is_duplicate

\* C4: the window slides from the most recent recorded sighting: a sighting of
\* an identity is a duplicate iff less than the window has elapsed since the
\* identity's last recorded sighting (and not a duplicate when there is none).
C4_SlidingWindow ==
    (pc = "add" /\ CustomerEmailOf(cur) # "") =>
        (dedup_result.is_duplicate
            <=> \E i \in RowsOf(customer_submissions,
                                CustomerEmailOf(cur), SubmissionTypeOf(cur)) :
                    now - customer_submissions[i].last_submission_at
                        < DEDUPLICATION_WINDOW_HOURS)

\* The (customer_email, submission_type) pairs the inputs can have.
Identities ==
    {<<_extract_email_address_from_content(input.body),
       _extract_title(input.body, input.subject)>> : input \in Inputs}

\* The window table restricted to the rows of one pair.
OwnRows(table, customer_email, submission_type) ==
    LET Own(r) == r.customer_email = customer_email /\ r.submission_type = submission_type
    IN  SelectSeq(table, Own)

\* The verdict of the email being checked is the one its own pair's rows give.
VerdictFromOwnRowsOnly ==
    pc = "add" =>
        dedup_result = is_customer_recently_processed(
                           OwnRows(customer_submissions,
                                   CustomerEmailOf(cur), SubmissionTypeOf(cur)),
                           CustomerEmailOf(cur), SubmissionTypeOf(cur),
                           DEDUPLICATION_WINDOW_HOURS)

\* C5: partition independence: the verdict for a pair depends only on that
\* pair's rows, and a write to the window table for one pair leaves every
\* other pair's rows, and the verdict every other pair would get, unchanged.
C5_PartitionIndependence ==
    [][/\ customer_submissions' # customer_submissions =>
           \A k \in Identities :
               k # <<CustomerEmailOf(cur), SubmissionTypeOf(cur)>> =>
                   /\ OwnRows(customer_submissions', k[1], k[2])
                         = OwnRows(customer_submissions, k[1], k[2])
                   /\ is_customer_recently_processed(customer_submissions', k[1], k[2],
                                                     DEDUPLICATION_WINDOW_HOURS)
                         = is_customer_recently_processed(customer_submissions, k[1], k[2],
                                                          DEDUPLICATION_WINDOW_HOURS)
       /\ VerdictFromOwnRowsOnly']_vars

\* A not-duplicate verdict while the same originator has a recent row of
\* another submission type.
C5_Witness ==
    /\ pc = "add"
    /\ CustomerEmailOf(cur) # ""
    /\ ~dedup_result.is_duplicate
    /\ \E i \in DOMAIN customer_submissions :
          /\ customer_submissions[i].customer_email = CustomerEmailOf(cur)
          /\ customer_submissions[i].submission_type # SubmissionTypeOf(cur)
          /\ customer_submissions[i].last_submission_at
                > datetime_now - DEDUPLICATION_WINDOW_HOURS

\* C6: an input whose extracted originator email is empty is never flagged
\* duplicate, whatever was processed before: it takes the send path, and its
\* ledger row has is_duplicate = FALSE.
C6_EmptyOriginatorNeverDuplicate ==
    /\ (InFlight /\ CustomerEmailOf(cur) = "") =>
           /\ ~dedup_result.is_duplicate
           /\ pc = "archive" => processed_emails[cur].webhook_sent
    /\ \A m \in DOMAIN processed_emails :
           processed_emails[m].customer_email = "" => ~processed_emails[m].is_duplicate

\* Two inputs without originator email and of the same type, both delivered.
C6_Witness ==
    \E m1, m2 \in DOMAIN processed_emails :
        /\ m1 # m2
        /\ processed_emails[m1].customer_email = ""
        /\ processed_emails[m2].customer_email = ""
        /\ processed_emails[m1].submission_type = processed_emails[m2].submission_type
        /\ delivered[m1] = 1
        /\ delivered[m2] = 1

\* C7: a duplicate is never sent to the webhook; it is persisted with
\* is_duplicate = TRUE, its window record is updated and it is archived without
\* delivery; and of two inputs of one identity within the window, the first is
\* not-duplicate and sent, the second duplicate and suppressed, and the
\* identity's submission_count is 2 afterwards.
C7_DuplicateSuppressed ==
    /\ \A m \in DOMAIN processed_emails :
           processed_emails[m].is_duplicate =>
               /\ delivered[m] = 0
               /\ ~processed_emails[m].webhook_sent
               /\ ~(InFlight /\ cur = m) =>
                      /\ processed_emails[m].archived
                      /\ m \notin inbox
                      /\ \E i \in RowsOf(customer_submissions,
                                          processed_emails[m].customer_email,
                                          processed_emails[m].submission_type) :
                             customer_submissions[i].submission_count >= 2
    /\ (pc = "add" /\ CustomerEmailOf(cur) # "") =>
           \A i \in RowsOf(customer_submissions, CustomerEmailOf(cur), SubmissionTypeOf(cur)) :
               (/\ customer_submissions[i].submission_count = 1
                /\ now - customer_submissions[i].last_submission_at
                      < DEDUPLICATION_WINDOW_HOURS)
                   => /\ dedup_result.is_duplicate
                      /\ delivered[customer_submissions[i].first_message_id] = 1

\* The effect record_customer_submission is claimed to have for the current email.
WindowRecordBumped ==
    LET e == CustomerEmailOf(cur)
        t == SubmissionTypeOf(cur)
        old == RowsOf(customer_submissions, e, t)
        new == RowsOf(customer_submissions', e, t)
    IN  /\ new # {}
        /\ \A i \in new :
               /\ customer_submissions'[i].last_submission_at = now
               /\ customer_submissions'[i].last_message_id = cur
               /\ customer_submissions'[i].email_subject = mail[cur].subject
               /\ customer_submissions'[i].submission_count
                     = IF i \in old THEN customer_submissions[i].submission_count + 1 ELSE 1
        /\ old = {} => Cardinality(new) = 1

\* The step in which record_customer_submission returns.
RecordReturns == pc = "record" /\ pc' \in {"send", "archive"}

C9_SentOnlyIfDelivered ==
    \A m \in DOMAIN processed_emails :
        processed_emails[m].webhook_sent => delivered[m] >= 1

\* A failed delivery: the email went through the upsert and the webhook call,
\* no 200 came back, and its row says webhook_sent = FALSE.
C9_Witness ==
    /\ pc = "sleep"
    /\ \E m \in DOMAIN processed_emails :
          /\ ~processed_emails[m].is_duplicate
          /\ ~processed_emails[m].webhook_sent
          /\ delivered[m] = 0
          /\ \E i \in DOMAIN customer_submissions :
                customer_submissions[i].last_message_id = m

\* The step in which a store call of the current iteration raises.
IterationAborted == pc \in {"add", "record", "mark"} /\ pc' \in {"loop", "sleep"}

\* C10: when a store write fails while an input is processed, none of that
\* input's writes is visible afterwards.
C10_NoPartialWrites ==
    [][IterationAborted =>
          /\ cur \notin DOMAIN processed_emails'
          /\ \A i \in DOMAIN customer_submissions' :
                 customer_submissions'[i].last_message_id # cur]_vars

\* C11: the outcome of the delivery does not touch the dedup state: the
\* window table, and with it the record written for the input before the
\* webhook call, is the same after send_to_webhook returned (True or False)
\* and after the success path's mark_webhook_sent.
C11_DeliveryLeavesWindowRecord ==
    [][(pc \in {"send", "mark"}) => customer_submissions' = customer_submissions]_vars

\* One input whose delivery failed and one whose delivery succeeded, each with
\* the window record it wrote before the call.
C11_Witness ==
    \E m1, m2 \in DOMAIN processed_emails :
        /\ ~(InFlight /\ cur \in {m1, m2})
        /\ ~processed_emails[m1].is_duplicate
        /\ delivered[m1] = 0
        /\ processed_emails[m2].webhook_sent
        /\ delivered[m2] = 1
        /\ \E i, j \in DOMAIN customer_submissions :
              /\ customer_submissions[i].last_message_id = m1
              /\ customer_submissions[i].submission_count = 1
              /\ customer_submissions[j].last_message_id = m2
              /\ customer_submissions[j].submission_count = 1

\* C12: first_submission_at and first_message_id of a window record never
\* change once the record exists, whatever sightings follow (duplicate or not,
\* inside or outside the window); a record is created with the time and the
\* message id of the sighting that creates it, and keeps its identity.
C12_FirstSightingImmutable ==
    [][(/\ \A i \in DOMAIN customer_submissions :
              /\ i \in DOMAIN customer_submissions'
              /\ customer_submissions'[i].customer_email
                    = customer_submissions[i].customer_email
              /\ customer_submissions'[i].submission_type
                    = customer_submissions[i].submission_type
              /\ customer_submissions'[i].first_submission_at
                    = customer_submissions[i].first_submission_at
              /\ customer_submissions'[i].first_message_id
                    = customer_submissions[i].first_message_id
        /\ \A i \in DOMAIN customer_submissions' \ DOMAIN customer_submissions :
              /\ customer_submissions'[i].first_submission_at = now
              /\ customer_submissions'[i].first_message_id = cur)]_vars

\* A record seen three times: by its first sighting, by a duplicate and by a
\* sighting that was not a duplicate, at a later hour than the first.
C12_Witness ==
    \E i \in DOMAIN customer_submissions :
        LET r == customer_submissions[i]
        IN  /\ r.submission_count = 3
            /\ r.first_message_id # r.last_message_id
            /\ r.first_submission_at < r.last_submission_at
            /\ \E m2, m3 \in DOMAIN processed_emails \ {r.first_message_id} :
                  /\ processed_emails[m2].is_duplicate
                  /\ ~processed_emails[m3].is_duplicate
                  /\ processed_emails[m2].customer_email = r.customer_email
                  /\ processed_emails[m3].customer_email = r.customer_email
                  /\ processed_emails[m2].submission_type = r.submission_type
                  /\ processed_emails[m3].submission_type = r.submission_type

\* C13: in every reachable state the window table holds at most one row per
\* (customer_email, submission_type) pair, also after a sighting that found
\* the pair's row older than the window; and no step removes a row or hands
\* it to another pair.
C13_OneRecordPerIdentity ==
    /\ [](\A i, j \in DOMAIN customer_submissions :
             (/\ customer_submissions[i].customer_email
                    = customer_submissions[j].customer_email
              /\ customer_submissions[i].submission_type
                    = customer_submissions[j].submission_type) => i = j)
    /\ [][(\A i \in DOMAIN customer_submissions :
              /\ i \in DOMAIN customer_submissions'
              /\ customer_submissions'[i].customer_email
                    = customer_submissions[i].customer_email
              /\ customer_submissions'[i].submission_type
                    = customer_submissions[i].submission_type)]_vars

\* A pair whose second sighting was judged not-duplicate (its row was older
\* than the window) and was recorded into the one row the pair has.
C13_Witness ==
    \E i \in DOMAIN customer_submissions :
        LET r == customer_submissions[i]
        IN  /\ r.submission_count = 2
            /\ r.first_message_id # r.last_message_id
            /\ ~processed_emails[r.first_message_id].is_duplicate
            /\ ~processed_emails[r.last_message_id].is_duplicate
            /\ Cardinality(RowsOf(customer_submissions, r.customer_email,
                                  r.submission_type)) = 1

\* C14: inputs are handled one at a time by the one monitor thread, so two
\* inputs of one identity that come within the window of each other never
\* both get a not-duplicate verdict: when an input is checked less than the
\* window after the recorded sighting of a not-duplicate input of its
\* identity, its verdict is duplicate.
C14_NeverBothNotDuplicate ==
    (pc = "add" /\ CustomerEmailOf(cur) # "") =>
        \A i \in RowsOf(customer_submissions, CustomerEmailOf(cur), SubmissionTypeOf(cur)) :
            LET r == customer_submissions[i]
            IN  (/\ r.last_message_id \in DOMAIN processed_emails
                 /\ ~processed_emails[r.last_message_id].is_duplicate
                 /\ now - r.last_submission_at < DEDUPLICATION_WINDOW_HOURS)
                    => dedup_result.is_duplicate

\* The step in which the handling of the current input ends in an exception.
InputFailed ==
    /\ pc \in {"loop", "add", "record", "mark"}
    /\ emails # <<>>
    /\ pc' \in {"loop", "sleep"}

\* C15: an exception raised while one input is handled skips that input only:
\* the other inputs of the batch are still waiting to be handled in the same
\* scan cycle.
C15_FailureSkipsOnlyThatInput ==
    [][InputFailed => emails' = Tail(emails)]_vars

CurPersisted ==
    /\ cur \in DOMAIN processed_emails
    /\ processed_emails[cur].customer_email = CustomerEmailOf(cur)
    /\ processed_emails[cur].submission_type = SubmissionTypeOf(cur)
    /\ processed_emails[cur].is_duplicate = dedup_result.is_duplicate

\* The window table has a record last updated by the current email.
CurRecorded ==
    \E i \in DOMAIN customer_submissions : customer_submissions[i].last_message_id = cur

\* A message is archived only if it is persisted and, when it is not a
\* duplicate, its delivery succeeded.
ArchivedInOrder ==
    \A m \in DOMAIN mail :
        (m \notin inbox \/ (m \in DOMAIN processed_emails /\ processed_emails[m].archived))
            => /\ m \in DOMAIN processed_emails
               /\ ~processed_emails[m].is_duplicate =>
                      (processed_emails[m].webhook_sent /\ delivered[m] >= 1)

\* C17, for every input: each input goes through check, persistence, delivery,
\* archival in this order: when the webhook is called for an input its ledger
\* row with the verdict is persisted and its window record is updated; an
\* input reaches archive_email only after both; a non-duplicate input is
\* archived only after its delivery succeeded.
C17_FixedOrder ==
    /\ pc \in {"send", "mark", "archive"} => (CurPersisted /\ CurRecorded)
    /\ pc \in {"send", "mark"} => ~dedup_result.is_duplicate
    /\ ArchivedInOrder

\* C17, by originator: the same, the window record being updated only for an input
\* whose originator email is not empty.
C17_FixedOrderIdentified ==
    /\ pc \in {"send", "mark", "archive"} =>
          /\ CurPersisted
          /\ CustomerEmailOf(cur) # "" => CurRecorded
    /\ pc \in {"send", "mark"} => ~dedup_result.is_duplicate
    /\ ArchivedInOrder

\* A non-duplicate input with an originator email at archive_email: persisted,
\* recorded, delivered and marked sent.
C17_Witness ==
    /\ pc = "archive"
    /\ CustomerEmailOf(cur) # ""
    /\ ~dedup_result.is_duplicate
    /\ CurPersisted
    /\ CurRecorded
    /\ processed_emails[cur].webhook_sent
    /\ delivered[cur] = 1

\* Two body email addresses of IdentityInputs that differ at most in letter case.
SameAddress(e1, e2) ==
    e1 = e2 \/ {e1, e2} = {"a@b.com", "A@B.com"}

C18_WitnessSameSender ==
    /\ pc = "add"
    /\ cur = 2
    /\ mail[1].sender = mail[2].sender
    /\ mail[1].body.email = "a@b.com"
    /\ mail[2].body.email = "c@d.com"
    /\ ~dedup_result.is_duplicate
    /\ \E i \in DOMAIN customer_submissions :
          /\ customer_submissions[i].last_message_id = 1
          /\ customer_submissions[i].last_submission_at
                 > datetime_now - DEDUPLICATION_WINDOW_HOURS

\* The closed set of canonical titles.
CanonicalTitles ==
    { "[BH] kaiin-touroku", "[HJ] event", "[HJ] kaiin-jouhou-henkou", "[HJ] taikai",
      "[HJ] bunjou-juutaku", "[HJ] shiryou-seikyuu", "[HJ] form", "[HJ] toiawase" }

\* The rules of a list that have a keyword in the text.
RulesHit(rules, text) ==
    {i \in DOMAIN rules : \E kw \in rules[i].keywords : Contains(text, kw)}

\* The title is the one of the lowest-numbered rule of the list that is hit.
IsTitleOfFirstHit(title, rules, text) ==
    \E i \in RulesHit(rules, text) :
        /\ \A j \in RulesHit(rules, text) : i <= j
        /\ title = rules[i].title

\* C19: for every body and subject the title returned is one of the canonical
\* titles: that of the first body rule with a keyword in the body; if no body
\* rule has one, that of the first subject rule with a keyword in the
\* lower-cased subject; if none has, the generic inquiry title.  Calls on the
\* same body and subject, whatever the time and the message id, return the
\* same title.
C19_ClassifyTotalDeterministic ==
    \A k \in DOMAIN returned :
        LET content == mail[1].body.kw
            subject_lower == Lower(mail[1].subject)
        IN  /\ returned[k].title \in CanonicalTitles
            /\ RulesHit(BodyRules, content) # {} =>
                   IsTitleOfFirstHit(returned[k].title, BodyRules, content)
            /\ (RulesHit(BodyRules, content) = {} /\ RulesHit(SubjectRules, subject_lower) # {}) =>
                   IsTitleOfFirstHit(returned[k].title, SubjectRules, subject_lower)
            /\ (RulesHit(BodyRules, content) = {} /\ RulesHit(SubjectRules, subject_lower) = {}) =>
                   returned[k].title = "[HJ] toiawase"
            /\ \A k2 \in DOMAIN returned : returned[k2].title = returned[k].title

\* Two calls with different message ids on a body that hits the fifth and the
\* seventh body rule and a subject that hits the first subject rule: both
\* return the fifth rule's title.
C19_Witness ==
    /\ Len(returned) = 2
    /\ returned[1].message_id # returned[2].message_id
    /\ mail[1].body.kw = "o-toiawase-form"
    /\ mail[1].subject = "Event annai"
    /\ RulesHit(BodyRules, mail[1].body.kw) = {5, 7}
    /\ RulesHit(SubjectRules, Lower(mail[1].subject)) = {1}
    /\ returned[1].title = "[HJ] bunjou-juutaku"
    /\ returned[2].title = "[HJ] bunjou-juutaku"

\* A body that hits no body rule with a subject that hits a subject rule only
\* after lower-casing.
C19_WitnessSubjectRule ==
    /\ Len(returned) = 1
    /\ mail[1].body.kw = "konnichiwa"
    /\ mail[1].subject = "INQUIRY"
    /\ returned[1].title = "[HJ] toiawase"

\* The keys of the returned dict that carry the fields of ExtractedRecord:
\* inquiry_id, inquiry_datetime, full_name, postal_code, postal_address,
\* phone_primary, phone_secondary, trigger_source, raw_subject, display_title,
\* reference_url, time_preference, phonetic_name, source_message_id,
\* originator_email, visit_date, visit_time, captured_at.
ExtractedRecordKeys ==
    { "toiawase_bangou", "toiawase_nichiji", "namae", "yuubin_bangou", "juusho",
      "denwa_bangou", "denwa_bangou_2", "kikkake", "kenmei", "title", "URL",
      "kibou_jikan", "furigana", "message_id", "customer_email", "raijou_kiboubi",
      "kibou_houmon_jikan", "timestamp" }

\* The body label whose absence leaves a key unresolved, for the keys that
\* have no default.
UnresolvedWithout ==
    { <<"name", "namae">>, <<"postal", "yuubin_bangou">>, <<"address", "juusho">>,
      <<"phone", "denwa_bangou">>, <<"furigana", "furigana">>,
      <<"visit_date", "raijou_kiboubi">>, <<"time", "kibou_houmon_jikan">> }

\* C20: every dict extract_data returns has every key of ExtractedRecord;
\* each value is a string (the message id is the id passed in, an element of
\* Msgs here), and it is the empty string when the body has no label for a
\* key without default.
C20_EveryFieldPresent ==
    \A k \in DOMAIN returned :
        /\ ExtractedRecordKeys \subseteq DOMAIN returned[k]
        /\ \A f \in ExtractedRecordKeys \ {"message_id"} : returned[k][f] \in STRING
        /\ returned[k].message_id \in Msgs
        /\ returned[k].denwa_bangou_2 = ""
        /\ \A p \in UnresolvedWithout :
              ~Has(mail[1].body, p[1]) => returned[k][p[2]] = ""

\* A dict returned for a body that has neither a name, a phone number, an
\* address nor a time label: all the keys are there, these ones empty.
C20_Witness ==
    /\ Len(returned) >= 1
    /\ mail[1].body \in FormBodies
    /\ ~Has(mail[1].body, "name")
    /\ ExtractedRecordKeys \subseteq DOMAIN returned[1]
    /\ returned[1].namae = ""
    /\ returned[1].denwa_bangou = ""
    /\ returned[1].juusho = ""
    /\ returned[1].furigana = ""
    /\ returned[1].yuubin_bangou = "123-4567"
    /\ returned[1].customer_email = "hanako@example.com"

\* The keys of the dict other than the inquiry number and the inquiry datetime.
KeysBesidesTimeDefaults ==
    {"sender_email", "subject", "timestamp", "namae", "yuubin_bangou", "juusho",
     "denwa_bangou", "denwa_bangou_2", "kikkake", "kenmei", "title", "URL",
     "kibou_jikan", "furigana", "message_id", "customer_email", "raijou_kiboubi",
     "kibou_houmon_jikan"}

\* Two calls of extract_data on the same body, sender, subject and message id.
SameInput(k1, k2) == returned[k1].message_id = returned[k2].message_id

\* C21, with two time defaults: two calls of extract_data on identical input return the
\* same value for every key except the inquiry number and the inquiry
\* datetime, and these two differ only when they are the time defaults.
C21_IdempotentButTwoDefaults ==
    \A k1, k2 \in DOMAIN returned :
        SameInput(k1, k2) =>
            /\ \A f \in KeysBesidesTimeDefaults : returned[k1][f] = returned[k2][f]
            /\ Has(mail[1].body, "inquiry_no") =>
                   returned[k1].toiawase_bangou = returned[k2].toiawase_bangou
            /\ Has(mail[1].body, "datetime") =>
                   returned[k1].toiawase_nichiji = returned[k2].toiawase_nichiji

\* C21, with three time fields: the same, the key timestamp (the time of the call) excepted
\* too.
C21_IdempotentButTimeFields ==
    \A k1, k2 \in DOMAIN returned :
        SameInput(k1, k2) =>
            /\ \A f \in KeysBesidesTimeDefaults \ {"timestamp"} :
                   returned[k1][f] = returned[k2][f]
            /\ Has(mail[1].body, "inquiry_no") =>
                   returned[k1].toiawase_bangou = returned[k2].toiawase_bangou
            /\ Has(mail[1].body, "datetime") =>
                   returned[k1].toiawase_nichiji = returned[k2].toiawase_nichiji

\* Two calls on the same input at different times, for a form body with an
\* inquiry number and an inquiry datetime: these and the other keys agree, the
\* timestamp does not.
C21_Witness ==
    /\ Len(returned) = 2
    /\ SameInput(1, 2)
    /\ Has(mail[1].body, "inquiry_no")
    /\ Has(mail[1].body, "datetime")
    /\ returned[1].timestamp # returned[2].timestamp
    /\ returned[1].toiawase_bangou = returned[2].toiawase_bangou
    /\ returned[1].toiawase_nichiji = returned[2].toiawase_nichiji
    /\ returned[1].namae = returned[2].namae
    /\ returned[1].title = returned[2].title

\* Two calls on the same input at different times, for a form body with
\* neither: the two defaults differ, the other keys agree.
C21_WitnessDefaults ==
    /\ Len(returned) = 2
    /\ SameInput(1, 2)
    /\ mail[1].body \in FormBodies
    /\ ~Has(mail[1].body, "inquiry_no")
    /\ returned[1].toiawase_bangou # returned[2].toiawase_bangou
    /\ returned[1].toiawase_nichiji # returned[2].toiawase_nichiji
    /\ returned[1].customer_email = returned[2].customer_email

\* C22: whenever the inquiry datetime is taken from the body, the output is
\* year-month-day hour:minute with month, day, hour and minute each of exactly
\* two digits, zero-padded ("2025-09-03 09:05" for 9:05 on 2025/9/3).
C22_InquiryDatetimeZeroPadded ==
    \A k \in DOMAIN returned :
        Has(mail[1].body, "datetime") =>
            LET g == mail[1].body.datetime
            IN  /\ Len(returned[k].toiawase_nichiji) = 16
                /\ returned[k].toiawase_nichiji
                       = g[1] \o "-" \o Zfill2(g[2]) \o "-" \o Zfill2(g[3])
                              \o " " \o Zfill2(g[4]) \o ":" \o Zfill2(g[5])

\* C23: with no time label in the body the preferred time is the afternoon
\* bucket whatever else the body contains; with a label, the captured text is
\* bucketed to morning or afternoon by its markers and returned as it is when
\* it has neither bucket's markers.
C23_PreferredTimeBuckets ==
    \A k \in DOMAIN returned :
        IF ~Has(mail[1].body, "time")
        THEN returned[k].kibou_jikan = "gogo"
        ELSE LET time_text == Strip(mail[1].body.time.text)
                 morning == \E x \in {"9:", "10:", "11:", "gozen", "AM"} :
                                Contains(time_text, x)
                 afternoon == \E x \in {"12:", "13:", "14:", "15:", "16:", "17:", "18:",
                                        "gogo", "PM"} : Contains(time_text, x)
             IN  /\ morning => returned[k].kibou_jikan = "gozen"
                 /\ (~morning /\ afternoon) => returned[k].kibou_jikan = "gogo"
                 /\ (~morning /\ ~afternoon) => returned[k].kibou_jikan = time_text

\* C24: a message id is posted to the webhook at most once: the batch of a
\* scan cycle holds no id twice and no id of the processed ledger other than
\* the one whose iteration is past add_processed_email, so an id in the ledger
\* is never fetched, extracted, checked or posted again; the webhook is called
\* only for an id it has not answered yet, and no id is accepted twice.
C24_PostedAtMostOnce ==
    /\ \A i, j \in DOMAIN emails : emails[i] = emails[j] => i = j
    /\ \A i \in DOMAIN emails :
          emails[i] \in DOMAIN processed_emails =>
              (i = 1 /\ pc \in {"record", "send", "mark", "archive"})
    /\ pc = "send" => delivered[cur] = 0
    /\ \A m \in Msgs : delivered[m] <= 1

\* A scan cycle starts with three messages in the inbox, two of them in the
\* ledger, one whose delivery failed and one delivered whose archival failed:
\* the batch is the newest message alone (a batch is handled newest first, so
\* the two others were handled in an earlier cycle).
C24_Witness ==
    /\ pc = "loop"
    /\ emails = <<3>>
    /\ 3 \in inbox \ DOMAIN processed_emails
    /\ \E m1, m2 \in inbox \cap DOMAIN processed_emails :
          /\ ~processed_emails[m1].is_duplicate
          /\ ~processed_emails[m1].webhook_sent
          /\ delivered[m1] = 0
          /\ \E i \in DOMAIN customer_submissions :
                 customer_submissions[i].last_message_id = m1
          /\ processed_emails[m2].webhook_sent
          /\ ~processed_emails[m2].archived
          /\ delivered[m2] = 1

\* C25: an input is suppressed as a duplicate only if another input of the
\* same (customer_email, submission_type) was delivered to the webhook: no
\* state has a duplicate ledger row whose identity has no delivered input.
C25_SuppressedOnlyAfterDelivery ==
    \A m \in DOMAIN processed_emails :
        processed_emails[m].is_duplicate =>
            \E d \in DOMAIN processed_emails :
                /\ d # m
                /\ processed_emails[d].customer_email = processed_emails[m].customer_email
                /\ processed_emails[d].submission_type = processed_emails[m].submission_type
                /\ delivered[d] >= 1

\* C26: the effective window is the configured one for every host UTC offset:
\* the threshold of the check and the stored last_submission_at are on one
\* time scale, so the verdict for an identified input is duplicate exactly
\* when a row of its pair is younger than the window on the database's clock.
C26_WindowOnOneTimeScale ==
    (pc = "add" /\ CustomerEmailOf(cur) # "") =>
        (dedup_result.is_duplicate <=>
            \E i \in RowsOf(customer_submissions, CustomerEmailOf(cur), SubmissionTypeOf(cur)) :
                CURRENT_TIMESTAMP - customer_submissions[i].last_submission_at
                    < DEDUPLICATION_WINDOW_HOURS)

\* C27: no inbox message is starved: every message that is in the inbox and
\* not in the processed ledger is eventually fetched and processed (it gets
\* its ledger row), also when processed messages stay in the inbox.  A ledger
\* row is never removed and a message leaves the inbox only after it got its
\* row, so this says that again and again no inbox message is without a row.
C27_NoStarvation ==
    []<>(inbox \subseteq DOMAIN processed_emails)

\* C28: in every state of the processed ledger webhook_sent implies not
\* is_duplicate and archived implies is_duplicate or webhook_sent; a row stays
\* in the ledger, and its webhook_sent and archived flags, once TRUE, never
\* return to FALSE.
C28_FlagsConsistentAndMonotone ==
    /\ [](\A m \in DOMAIN processed_emails :
             /\ processed_emails[m].webhook_sent => ~processed_emails[m].is_duplicate
             /\ processed_emails[m].archived =>
                    (processed_emails[m].is_duplicate \/ processed_emails[m].webhook_sent))
    /\ [][\A m \in DOMAIN processed_emails :
             /\ m \in DOMAIN processed_emails'
             /\ processed_emails[m].webhook_sent => processed_emails'[m].webhook_sent
             /\ processed_emails[m].archived => processed_emails'[m].archived]_vars

\* add_processed_email inserts a third row while the ledger holds a delivered,
\* archived row and a duplicate, archived row: both keep their flags.
C28_Witness ==
    /\ pc = "record"
    /\ \E m1, m2 \in DOMAIN processed_emails \ {cur} :
          /\ processed_emails[m1].webhook_sent
          /\ processed_emails[m1].archived
          /\ ~processed_emails[m1].is_duplicate
          /\ processed_emails[m2].is_duplicate
          /\ processed_emails[m2].archived
          /\ ~processed_emails[m2].webhook_sent

\* C29: every input that reached a final outcome (its delivery is recorded, or
\* it was stored as a duplicate) is eventually archived: out of the inbox and
\* marked archived.
C29_EventuallyArchived ==
    \A m \in 1..MaxPair :
        []((m \in DOMAIN processed_emails
               /\ (processed_emails[m].webhook_sent \/ processed_emails[m].is_duplicate))
            => <>(m \notin inbox
                     /\ m \in DOMAIN processed_emails
                     /\ processed_emails[m].archived))

\* The ledger rows of one (customer_email, submission_type) pair.
LedgerRowsOf(customer_email, submission_type) ==
    {m \in DOMAIN processed_emails :
        /\ processed_emails[m].customer_email = customer_email
        /\ processed_emails[m].submission_type = submission_type}

\* C30: the two tables are consistent after every fully processed input: for
\* every identity with a non-empty originator email the submission_count of
\* its window record is the number of its ledger rows, and a ledger row is
\* written with is_duplicate = FALSE when it is the first of its identity or
\* comes more than the window after the identity's last sighting, and with
\* is_duplicate = TRUE when it comes less than the window after it.
C30_TablesConsistent ==
    /\ [](pc \in {"loop", "sleep"} =>
             \A k \in Identities :
                 (k[1] # "" /\ LedgerRowsOf(k[1], k[2]) # {}) =>
                     /\ RowsOf(customer_submissions, k[1], k[2]) # {}
                     /\ \A i \in RowsOf(customer_submissions, k[1], k[2]) :
                            customer_submissions[i].submission_count
                                = Cardinality(LedgerRowsOf(k[1], k[2])))
    /\ [][(pc = "add" /\ pc' = "record" /\ CustomerEmailOf(cur) # "") =>
             LET own == RowsOf(customer_submissions,
                               CustomerEmailOf(cur), SubmissionTypeOf(cur))
             IN  /\ own = {} => ~processed_emails'[cur].is_duplicate
                 /\ \A i \in own :
                        /\ now - customer_submissions[i].last_submission_at
                               < DEDUPLICATION_WINDOW_HOURS
                             => processed_emails'[cur].is_duplicate
                        /\ now - customer_submissions[i].last_submission_at
                               > DEDUPLICATION_WINDOW_HOURS
                             => ~processed_emails'[cur].is_duplicate]_vars

====
